---- MODULE Spec2Model ----
(***************************************************************************)
(* A model of the virtual-DOM reconciliation engine: createElement, diff,  *)
(* diffProps, diffChildren, patch, applyPropPatches, createRealDomNode,    *)
(* render and useState, together with the part of the browser DOM the      *)
(* engine calls (createTextNode, createElement, appendChild, removeChild,  *)
(* replaceChild, childNodes, firstChild, textContent, property writes).    *)
(*                                                                         *)
(* JavaScript values are tagged records, the tag k being what typeof and   *)
(* === look at.  A string is a sequence of characters, so that converting  *)
(* a number to text is a real conversion.  Arrays and closures carry the   *)
(* render pass that created them (gen): two arrays or closures created in  *)
(* different passes are different objects for ===.                         *)
(***************************************************************************)
EXTENDS Integers, Sequences, FiniteSets, TLC

(***************************************************************************)
(* Bounds of the model.                                                    *)
(***************************************************************************)
MaxKids == 2
MaxRenders == 2
MaxClicks == 2
MaxVal == 1
MaxAttrs == 2

(***************************************************************************)
(* JavaScript values.                                                      *)
(***************************************************************************)
Undefined == [k |-> "undefined"]
Null == [k |-> "null"]
Str(s) == [k |-> "string", s |-> s]
Num(n) == [k |-> "number", n |-> n]
Arr(g, items) == [k |-> "array", gen |-> g, items |-> items]
Obj(entries) == [k |-> "props", entries |-> entries]

\* typeof v, for the values a node can be
TypeOf(v) ==
    IF v.k \in {"null", "array", "props", "element"} THEN "object" ELSE v.k

\* the truthiness test of  !v
Falsy(v) ==
    \/ v.k \in {"undefined", "null"}
    \/ v.k = "string" /\ v.s = <<>>
    \/ v.k = "number" /\ v.n = 0

Digit == <<"0", "1", "2", "3", "4", "5", "6", "7", "8", "9">>

RECURSIVE NumToStr(_)
\* String(n) for a non-negative integer
NumToStr(n) ==
    IF n < 10 THEN <<Digit[n + 1]>>
    ELSE NumToStr(n \div 10) \o <<Digit[(n % 10) + 1]>>

\* the string conversion the DOM applies to a scalar (createTextNode, textContent)
ToText(v) ==
    IF v.k = "string" THEN v.s
    ELSE IF v.k = "number" THEN NumToStr(v.n)
    ELSE <<>>

\* key.startsWith("on"), over the attribute keys of the model
StartsWithOn(key) == key \in {"onClick", "onclick"}

\* the key used as it is written
ToLowerCase_AsWritten(key) == key

\* key.toLowerCase(), over the attribute keys of the model
ToLowerCase(key) == IF key = "onClick" THEN "onclick" ELSE key

(***************************************************************************)
(* Objects with ordered keys: a sequence of <<key, value>> entries.        *)
(***************************************************************************)
HasKey(entries, key) == \E i \in 1..Len(entries) : entries[i][1] = key

\* entries[key], undefined when the key is missing
Get(entries, key) ==
    IF HasKey(entries, key)
    THEN entries[CHOOSE i \in 1..Len(entries) : entries[i][1] = key][2]
    ELSE Undefined

RECURSIVE SelectEntries(_, _)
\* the entries whose key is not `key`, in order
SelectEntries(entries, key) ==
    IF entries = <<>> THEN <<>>
    ELSE IF Head(entries)[1] = key THEN SelectEntries(Tail(entries), key)
    ELSE <<Head(entries)>> \o SelectEntries(Tail(entries), key)

(***************************************************************************)
(* Node Model.                                                             *)
(***************************************************************************)
\* { type, props: { ...props, children } }; g is the pass in which it runs
createElement(type, props, children, g) ==
    [k |-> "element", type |-> type,
     props |-> Obj((IF props.k = "props" THEN SelectEntries(props.entries, "children") ELSE <<>>)
                   \o <<<<"children", Arr(g, children)>>>>)]

\* node.props, undefined on a scalar
PropsOf(node) == IF node.k = "element" THEN node.props ELSE Undefined

\* node.type, undefined on a scalar
TagOf(node) == IF node.k = "element" THEN Str(node.type) ELSE Undefined

\* node.props?.children || []
ChildrenOf(node) ==
    LET p == PropsOf(node) IN
    IF p.k = "props" /\ Get(p.entries, "children").k = "array"
    THEN Get(p.entries, "children").items
    ELSE <<>>

\* a[i] with JavaScript's 0-based index i, undefined past the end
At(a, i) == IF i + 1 \in 1..Len(a) THEN a[i + 1] ELSE Undefined

Max(a, b) == IF a >= b THEN a ELSE b

(***************************************************************************)
(* Differ.                                                                 *)
(***************************************************************************)
RECURSIVE SetPatches(_, _)
\* first loop of diffProps: a SET_PROP for every key of newProps whose value differs
SetPatches(oldEntries, newEntries) ==
    IF newEntries = <<>> THEN <<>>
    ELSE LET e == Head(newEntries) IN
         (IF Get(oldEntries, e[1]) # e[2]
          THEN <<[type |-> "SET_PROP", key |-> e[1], value |-> e[2]]>>
          ELSE <<>>)
         \o SetPatches(oldEntries, Tail(newEntries))

\* the second loop without its test: a REMOVE_PROP for every key of oldProps
RemovePatches_EveryKey(oldEntries, newEntries) ==
    [i \in 1..Len(oldEntries) |-> [type |-> "REMOVE_PROP", key |-> oldEntries[i][1]]]

RECURSIVE RemovePatches(_, _)
\* second loop of diffProps: a REMOVE_PROP for every key of oldProps not in newProps
RemovePatches(oldEntries, newEntries) ==
    IF oldEntries = <<>> THEN <<>>
    ELSE (IF ~HasKey(newEntries, Head(oldEntries)[1])
          THEN <<[type |-> "REMOVE_PROP", key |-> Head(oldEntries)[1]]>>
          ELSE <<>>)
         \o RemovePatches(Tail(oldEntries), newEntries)

\* diffProps running its removal loop before its set loop
diffProps_RemovesFirst(oldProps, newProps) ==
    LET o == IF oldProps.k = "props" THEN oldProps.entries ELSE <<>>
        n == IF newProps.k = "props" THEN newProps.entries ELSE <<>>
    IN RemovePatches(o, n) \o SetPatches(o, n)

\* oldProps = {}, newProps = {} are the defaults of undefined arguments
diffProps(oldProps, newProps) ==
    LET o == IF oldProps.k = "props" THEN oldProps.entries ELSE <<>>
        n == IF newProps.k = "props" THEN newProps.entries ELSE <<>>
    IN SetPatches(o, n) \o RemovePatches(o, n)

\* diffProps fails on a null mapping: it reads oldProps[key] for a key of
\* newProps, or evaluates `key in newProps` for a key of oldProps (the
\* default {} stands in for undefined only)
diffPropsThrows(oldProps, newProps) ==
    \/ oldProps.k = "null" /\ newProps.k = "props" /\ newProps.entries # <<>>
    \/ newProps.k = "null" /\ oldProps.k = "props" /\ oldProps.entries # <<>>

RECURSIVE diff(_, _)

Min(a, b) == IF a <= b THEN a ELSE b

\* diffChildren looping over the shorter of the two lists
diffChildren_Shorter(oldChildren, newChildren) ==
    [j \in 1..Min(Len(oldChildren), Len(newChildren)) |->
        diff(At(oldChildren, j - 1), At(newChildren, j - 1))]

diffChildren(oldChildren, newChildren) ==
    [j \in 1..Max(Len(oldChildren), Len(newChildren)) |->
        diff(At(oldChildren, j - 1), At(newChildren, j - 1))]

diff(oldNode, newNode) ==
    IF newNode.k \in {"null", "undefined"} THEN [type |-> "REMOVE"]
    ELSE IF TypeOf(oldNode) # TypeOf(newNode) THEN [type |-> "REPLACE", newNode |-> newNode]
    ELSE IF oldNode.k = "null" THEN [type |-> "THROW"]
    ELSE IF TagOf(oldNode) # TagOf(newNode) THEN [type |-> "REPLACE", newNode |-> newNode]
    ELSE IF oldNode.k \in {"string", "number"} /\ oldNode # newNode
         THEN [type |-> "TEXT", newNode |-> newNode]
    ELSE IF diffPropsThrows(PropsOf(oldNode), PropsOf(newNode)) THEN [type |-> "THROW"]
    ELSE [type |-> "UPDATE",
          propPatches |-> diffProps(PropsOf(oldNode), PropsOf(newNode)),
          childPatches |-> diffChildren(ChildrenOf(oldNode), ChildrenOf(newNode))]

RECURSIVE Throws(_)
\* diff did not return: it read .type of a null old node, or diffProps failed
Throws(script) ==
    \/ script.type = "THROW"
    \/ /\ script.type = "UPDATE"
       /\ \E i \in 1..Len(script.childPatches) : Throws(script.childPatches[i])

(***************************************************************************)
(* The live tree.  A dom value is the heap of live nodes (a node's         *)
(* identity is its index in nodes) and the exception, if any, that an      *)
(* operation has thrown; once an exception is thrown nothing more runs.    *)
(* The absent live node (undefined) is 0.  Node 1 is the container.        *)
(***************************************************************************)
NoNode == 0
container == 1
NoProps == [key \in {} |-> Undefined]

ElementNode(tag) ==
    [nodeType |-> "element", tag |-> tag, text |-> <<>>, props |-> NoProps,
     childNodes |-> <<>>, parent |-> NoNode]

TextNode(text) ==
    [nodeType |-> "text", tag |-> "#text", text |-> text, props |-> NoProps,
     childNodes |-> <<>>, parent |-> NoNode]

\* const container = document.getElementById("root"), empty
EmptyDocument == [nodes |-> <<ElementNode("root")>>, threw |-> "none"]

Throw(d, what) == [d EXCEPT !.threw = what]

\* the identity of the next node to be created
NextNode(d) == Len(d.nodes) + 1

\* document.createTextNode(v)
CreateTextNode(d, v) ==
    IF d.threw # "none" THEN d
    ELSE [d EXCEPT !.nodes = Append(@, TextNode(ToText(v)))]

\* document.createElement(tag)
CreateElementNode(d, tag) ==
    IF d.threw # "none" THEN d
    ELSE [d EXCEPT !.nodes = Append(@, ElementNode(tag))]

\* the position (1-based) of child among parent's childNodes, 0 when it is not one
IndexOfChild(d, parent, child) ==
    LET kids == d.nodes[parent].childNodes IN
    IF \E i \in 1..Len(kids) : kids[i] = child
    THEN CHOOSE i \in 1..Len(kids) : kids[i] = child
    ELSE 0

RemoveAt(s, i) == SubSeq(s, 1, i - 1) \o SubSeq(s, i + 1, Len(s))

\* node.childNodes[i], 0-based, undefined past the end
ChildNodeAt(d, node, i) ==
    IF i + 1 \in 1..Len(d.nodes[node].childNodes)
    THEN d.nodes[node].childNodes[i + 1]
    ELSE NoNode

\* node.firstChild
FirstChild(d, node) == ChildNodeAt(d, node, 0)

\* parent.appendChild(child), child being a node that has no parent yet
AppendChild(d, parent, child) ==
    IF d.threw # "none" THEN d
    ELSE IF parent = NoNode THEN Throw(d, "TypeError: appendChild of undefined")
    ELSE IF d.nodes[parent].nodeType = "text"
         THEN Throw(d, "HierarchyRequestError: appendChild")
    ELSE [d EXCEPT !.nodes[parent].childNodes = Append(@, child),
                   !.nodes[child].parent = parent]

\* parent.removeChild(child)
RemoveChild(d, parent, child) ==
    IF d.threw # "none" THEN d
    ELSE IF parent = NoNode THEN Throw(d, "TypeError: removeChild of undefined")
    ELSE IF child = NoNode THEN Throw(d, "TypeError: removeChild argument is not a Node")
    ELSE IF IndexOfChild(d, parent, child) = 0 THEN Throw(d, "NotFoundError: removeChild")
    ELSE [d EXCEPT !.nodes[parent].childNodes = RemoveAt(@, IndexOfChild(d, parent, child)),
                   !.nodes[child].parent = NoNode]

\* parent.replaceChild(newChild, oldChild), newChild having no parent yet
ReplaceChild(d, parent, newChild, oldChild) ==
    IF d.threw # "none" THEN d
    ELSE IF parent = NoNode THEN Throw(d, "TypeError: replaceChild of undefined")
    ELSE IF d.nodes[parent].nodeType = "text"
         THEN Throw(d, "HierarchyRequestError: replaceChild")
    ELSE IF IndexOfChild(d, parent, oldChild) = 0 THEN Throw(d, "NotFoundError: replaceChild")
    ELSE [d EXCEPT !.nodes[parent].childNodes[IndexOfChild(d, parent, oldChild)] = newChild,
                   !.nodes[newChild].parent = parent,
                   !.nodes[oldChild].parent = NoNode]

\* the string an element's reflected string property (id) keeps for a value
DOMString(v) ==
    IF v.k = "null" THEN Str(<<"n", "u", "l", "l">>)
    ELSE IF v.k = "undefined" THEN Str(<<"u", "n", "d", "e", "f", "i", "n", "e", "d">>)
    ELSE Str(ToText(v))

\* what an element keeps for domNode[key] = value: id is a reflected string,
\* onclick an event handler property (null unless a function), any other key
\* of the model an own property holding the value itself
StoredValue(key, value) ==
    IF key = "id" THEN DOMString(value)
    ELSE IF key = "onclick" THEN (IF value.k = "function" THEN value ELSE Null)
    ELSE value

\* node[key] = value.  Element.children is an accessor without a setter, so
\* the assignment of a non-strict script to it is ignored.
SetProperty(d, node, key, value) ==
    IF d.threw # "none" THEN d
    ELSE IF node = NoNode THEN Throw(d, "TypeError: set property of undefined")
    ELSE IF key = "children" /\ d.nodes[node].nodeType = "element" THEN d
    ELSE LET kept == IF d.nodes[node].nodeType = "element"
                     THEN StoredValue(key, value) ELSE value
         IN [d EXCEPT !.nodes[node].props =
                [x \in (DOMAIN @) \cup {key} |-> IF x = key THEN kept ELSE @[x]]]

\* node.textContent = v: the data of a text node; on an element, its children
\* are replaced by one text node (none for the empty string)
SetTextContent(d, node, v) ==
    IF d.threw # "none" THEN d
    ELSE IF node = NoNode THEN Throw(d, "TypeError: set textContent of undefined")
    ELSE IF d.nodes[node].nodeType = "text" THEN [d EXCEPT !.nodes[node].text = ToText(v)]
    ELSE LET kids == d.nodes[node].childNodes
             orphaned == [d EXCEPT !.nodes =
                 [n \in DOMAIN @ |->
                     IF \E i \in 1..Len(kids) : kids[i] = n
                     THEN [@[n] EXCEPT !.parent = NoNode] ELSE @[n]]]
             cleared == [orphaned EXCEPT !.nodes[node].childNodes = <<>>]
         IN IF ToText(v) = <<>> THEN cleared
            ELSE AppendChild(CreateTextNode(cleared, v), node, NextNode(cleared))

(***************************************************************************)
(* Materializer.                                                           *)
(***************************************************************************)
RECURSIVE InstallProps(_, _, _)
\* Object.keys(vdom.props).forEach of createRealDomNode
InstallProps(d, node, entries) ==
    IF entries = <<>> THEN d
    ELSE LET key == Head(entries)[1]
             value == Head(entries)[2]
             d1 == IF StartsWithOn(key) THEN SetProperty(d, node, ToLowerCase(key), value)
                   ELSE IF key # "children" THEN SetProperty(d, node, key, value)
                   ELSE d
         IN InstallProps(d1, node, Tail(entries))

RECURSIVE createRealDomNode(_, _)
RECURSIVE AppendChildren(_, _, _)

\* vdom.props.children.forEach(child => domNode.appendChild(createRealDomNode(child)))
AppendChildren(d, node, children) ==
    IF children = <<>> THEN d
    ELSE AppendChildren(
            AppendChild(createRealDomNode(d, Head(children)), node, NextNode(d)),
            node, Tail(children))

\* the dom after createRealDomNode(vdom); the node it returns is NextNode(d)
createRealDomNode(d, vdom) ==
    IF d.threw # "none" THEN d
    ELSE IF vdom.k \in {"string", "number"} THEN CreateTextNode(d, vdom)
    ELSE IF vdom.k # "element" THEN Throw(d, "TypeError: type of undefined")
    ELSE LET node == NextNode(d)
             d1 == CreateElementNode(d, vdom.type)
         IN IF vdom.props.k # "props" THEN d1
            ELSE LET d2 == InstallProps(d1, node, vdom.props.entries)
                     kids == Get(vdom.props.entries, "children")
                 IN IF kids.k # "array"
                    THEN Throw(d2, "TypeError: forEach of undefined")
                    ELSE AppendChildren(d2, node, kids.items)

(***************************************************************************)
(* Patcher.                                                                *)
(***************************************************************************)
RECURSIVE applyPropPatches(_, _, _)
applyPropPatches(d, domNode, propPatches) ==
    IF propPatches = <<>> THEN d
    ELSE LET p == Head(propPatches)
             d1 == IF p.type = "SET_PROP"
                   THEN IF StartsWithOn(p.key)
                        THEN SetProperty(d, domNode, ToLowerCase(p.key), p.value)
                        ELSE SetProperty(d, domNode, p.key, p.value)
                   ELSE IF p.type = "REMOVE_PROP"
                   THEN SetProperty(d, domNode, p.key, Null)
                   ELSE d
         IN applyPropPatches(d1, domNode, Tail(propPatches))

\* the REPLACE case without its test of domNode: the new node is always appended
PlaceNewNode_AlwaysAppend(d, domNode, newDomNode, parentNode) ==
    AppendChild(d, parentNode, newDomNode)

\* the REPLACE case taking the old node out and appending the new one
PlaceNewNode_RemoveThenAppend(d, domNode, newDomNode, parentNode) ==
    IF domNode = NoNode
    THEN AppendChild(d, parentNode, newDomNode)
    ELSE AppendChild(RemoveChild(d, parentNode, domNode), parentNode, newDomNode)

\* if (!domNode) parentNode.appendChild(newDomNode) else parentNode.replaceChild(newDomNode, domNode)
PlaceNewNode(d, domNode, newDomNode, parentNode) ==
    IF domNode = NoNode
    THEN AppendChild(d, parentNode, newDomNode)
    ELSE ReplaceChild(d, parentNode, newDomNode, domNode)

RECURSIVE patch(_, _, _, _)
RECURSIVE PatchChildren(_, _, _, _)

\* patches.childPatches.forEach((childPatch, i) => patch(domNode.childNodes[i], childPatch, domNode)),
\* from index i on; childNodes is read from the live node at each step
PatchChildren(d, domNode, childPatches, i) ==
    IF i >= Len(childPatches) \/ d.threw # "none" THEN d
    ELSE IF domNode = NoNode THEN Throw(d, "TypeError: childNodes of undefined")
    ELSE PatchChildren(
            patch(d, ChildNodeAt(d, domNode, i), childPatches[i + 1], domNode),
            domNode, childPatches, i + 1)

patch(d, domNode, patches, parentNode) ==
    IF d.threw # "none" THEN d
    ELSE IF patches.type = "REMOVE" THEN RemoveChild(d, parentNode, domNode)
    ELSE IF patches.type = "REPLACE"
         THEN LET newDomNode == NextNode(d)
                  d1 == createRealDomNode(d, patches.newNode)
              IN PlaceNewNode(d1, domNode, newDomNode, parentNode)
    ELSE IF patches.type = "TEXT" THEN SetTextContent(d, domNode, patches.newNode)
    ELSE IF patches.type = "UPDATE"
         THEN PatchChildren(applyPropPatches(d, domNode, patches.propPatches),
                            domNode, patches.childPatches, 0)
    ELSE d

(***************************************************************************)
(* Producers (the callers' render functions) and their inputs.             *)
(*   Counter  the producer of the source: one state read, initial value 0  *)
(*   Pair     a producer with two state reads, initial values 1 and 2      *)
(*   Static   a producer without state: it returns a tree of the same      *)
(*            shape every time it runs, built anew by createElement        *)
(***************************************************************************)
Components == {"Counter", "Pair", "Static"}

RECURSIVE SeqsUpTo(_, _)
\* the sequences over S of length at most n
SeqsUpTo(S, n) ==
    IF n = 0 THEN {<<>>}
    ELSE LET shorter == SeqsUpTo(S, n - 1)
         IN shorter \cup {Append(q, x) : q \in {r \in shorter : Len(r) = n - 1}, x \in S}

TextA == <<"a">>
TextB == <<"b">>

\* the shape of an Element: what a Static producer passes to createElement
Shape(tag, kids) == [k |-> "shape", tag |-> tag, kids |-> kids]

RootLeaves == {Str(<<>>), Str(TextA), Str(<<"1">>), Num(0), Num(1)}

\* the children the trees of the model are built from
KidShapes == {Str(TextA), Str(TextB), Shape("p", <<Str(TextA)>>)}

\* an inline arrow function written as an attribute value
Handler == [k |-> "handler"]

\* the shape of an Element written with an attribute mapping
ShapeWith(tag, attrs, kids) == [k |-> "shape", tag |-> tag, attrs |-> attrs, kids |-> kids]

\* the attribute mappings of the model's trees: id and onClick, in either order
PatchAttrs ==
    {a \in SeqsUpTo({<<"id", Str(TextA)>>, <<"id", Str(TextB)>>, <<"onClick", Handler>>},
                    MaxAttrs) :
        \A i, j \in 1..Len(a) : a[i][1] = a[j][1] => i = j}

\* the well-formed trees the differ and the patcher are applied to
PatchShapes ==
    RootLeaves \cup
    {Shape(tag, kids) : tag \in {"div", "p"}, kids \in SeqsUpTo(KidShapes, MaxKids)} \cup
    {ShapeWith("div", attrs, kids) : attrs \in PatchAttrs, kids \in {<<>>, <<Str(TextA)>>}}

\* the well-formed trees a Static producer may return (some of PatchShapes)
Shapes ==
    RootLeaves \cup
    {Shape("div", kids) : kids \in SeqsUpTo({Str(TextB), Shape("p", <<Str(TextA)>>)}, MaxKids)} \cup
    {Shape("p", <<>>)}

\* the attribute mapping written at a createElement call, as built in pass g:
\* an inline function is a new closure in every pass
BuildAttrs(attrs, g) ==
    [i \in 1..Len(attrs) |->
        <<attrs[i][1],
          IF attrs[i][2] = Handler
          THEN [k |-> "function", gen |-> g, setCount |-> Null, count |-> Null]
          ELSE attrs[i][2]>>]

RECURSIVE Build(_, _)
\* the tree of shape sh that the createElement calls of pass g return
Build(sh, g) ==
    IF sh.k = "literal" THEN [k |-> "element", type |-> sh.tag, props |-> sh.props]
    ELSE IF sh.k # "shape" THEN sh
    ELSE createElement(sh.tag,
                       IF "attrs" \in DOMAIN sh THEN Obj(BuildAttrs(sh.attrs, g)) ELSE Null,
                       [i \in 1..Len(sh.kids) |-> Build(sh.kids[i], g)], g)

\* the producers a caller can pass to render: sh is the shape a Static one returns
Inputs(component) == IF component = "Static" THEN Shapes ELSE {Null}

PairInits == <<Num(1), Num(2)>>

\* the values a caller passes to a setter of Pair
SetterValues == {Num(n) : n \in 0..MaxVal}

CountPrefix == <<"C", "o", "u", "n", "t", ":", " ">>
Increment == <<"I", "n", "c", "r", "e", "m", "e", "n", "t">>

(***************************************************************************)
(* State Store and Render Driver, as operators on the program state        *)
(*   dom, currentVDOM, currentComponent, hookIndex,                        *)
(*   stateStorage (component -> hooks array, 0 when it has no entry),      *)
(*   arrays (the hooks arrays; an array's identity is its index),          *)
(*   pass (render passes started so far),                                  *)
(*   staticShape (the shape the current Static producer returns)           *)
(* and on the record of the current pass: reads (the values the state      *)
(* reads returned), made (the setters they returned), vdom, branch,        *)
(* against and script (the old tree given to diff and what diff returned). *)
(***************************************************************************)
NoArray == 0

\* the closure setState created by the read-th state read of a pass of
\* component comp, when hookIndex was index; it closes over the array hooks
Setter(hooks, comp, read, index) ==
    [k |-> "function", hooks |-> hooks, comp |-> comp, read |-> read, index |-> index]

\* a setter that does not store the value
ArraySet_NotStored(a, i, v) == a

\* a[i] = v for a JavaScript array, 0-based, growing the array when needed
ArraySet(a, i, v) ==
    [j \in 1..Max(Len(a), i + 1) |->
        IF j = i + 1 THEN v ELSE IF j <= Len(a) THEN a[j] ELSE Undefined]

\* the program state after useState(initialValue); it returns
\* [Last(reads), Last(made)]
useState(st, initialValue) ==
    LET stored == st.stateStorage[st.currentComponent]
        hooks == IF stored # NoArray THEN stored ELSE Len(st.arrays) + 1
        arrays1 == IF stored # NoArray THEN st.arrays ELSE Append(st.arrays, <<>>)
        arrays2 == IF st.hookIndex >= Len(arrays1[hooks])
                   THEN [arrays1 EXCEPT ![hooks] = Append(@, initialValue)]
                   ELSE arrays1
        stateValue == At(arrays2[hooks], st.hookIndex)
    IN [st EXCEPT !.arrays = arrays2,
                  !.stateStorage[st.currentComponent] = hooks,
                  !.reads = Append(@, stateValue),
                  !.made = Append(@, Setter(hooks, st.currentComponent, Len(@) + 1, st.hookIndex))]

Last(q) == q[Len(q)]

\* function Counter() of the source
Counter(st) ==
    LET st1 == useState(st, Num(0))
        count == Last(st1.reads)
        setCount == Last(st1.made)
        onClick == [k |-> "function", gen |-> st.pass, setCount |-> setCount, count |-> count]
    IN [st1 EXCEPT !.vdom =
            createElement("div", Null,
                <<createElement("h1", Null, <<Str(CountPrefix \o ToText(count))>>, st.pass),
                  createElement("button", Obj(<<<<"onClick", onClick>>>>),
                                <<Str(Increment)>>, st.pass)>>,
                st.pass)]

\* a producer with two state reads, showing both values
Pair(st) ==
    LET st1 == useState(st, PairInits[1])
        st2 == useState(st1, PairInits[2])
    IN [st2 EXCEPT !.vdom = createElement("div", Null, st2.reads, st.pass)]

\* component()
Produce(st, component) ==
    IF component = "Counter" THEN Counter(st)
    ELSE IF component = "Pair" THEN Pair(st)
    ELSE [st EXCEPT !.vdom = Build(st.staticShape, st.pass)]

\* the snapshot retained only by the first-mount branch
Retain_OnMountOnly(snapshot, vdom, threw) ==
    IF threw = "none" /\ Falsy(snapshot) THEN vdom ELSE snapshot

\* currentVDOM = vdom, the last statement of render, reached unless it has thrown
Retain(snapshot, vdom, threw) ==
    IF threw = "none" THEN vdom ELSE snapshot

\* the program state after render(component, container)
render(st, component) ==
    LET st1 == Produce([st EXCEPT !.currentComponent = component,
                                  !.hookIndex = 0,
                                  !.pass = @ + 1,
                                  !.reads = <<>>,
                                  !.made = <<>>],
                       component)
        vdom == st1.vdom
        mount == Falsy(st1.currentVDOM)
        patches == IF mount THEN Null ELSE diff(st1.currentVDOM, vdom)
        dom1 == IF mount
                THEN AppendChild(createRealDomNode(st1.dom, vdom), container, NextNode(st1.dom))
                ELSE IF Throws(patches)
                THEN Throw(st1.dom, "TypeError: type of null")
                ELSE patch(st1.dom, FirstChild(st1.dom, container), patches, container)
    IN [st1 EXCEPT !.dom = dom1,
                   !.branch = IF mount THEN "mount" ELSE "patch",
                   !.against = IF mount THEN Null ELSE st1.currentVDOM,
                   !.script = patches,
                   !.currentVDOM = Retain(@, vdom, dom1.threw)]

\* the program state after setState(newValue) of the closure setter
setState(st, setter, newValue) ==
    LET st1 == [st EXCEPT !.arrays[setter.hooks] = ArraySet(@, st.hookIndex, newValue),
                          !.stateStorage[st.currentComponent] = setter.hooks]
    IN render(st1, st1.currentComponent)

(***************************************************************************)
(* The state machine.  Every call from outside (a render call, a click on  *)
(* a live button, a call of a setter) runs to completion in one step.      *)
(* hist records the last render pass: its producer, what triggered it,     *)
(* the tree produced, the branch taken, the state reads and their setters. *)
(* setters holds the setters Pair has handed to its caller.                *)
(***************************************************************************)
VARIABLES dom, currentVDOM, currentComponent, hookIndex, stateStorage, arrays,
          pass, staticShape, hist, setters, renders, calls

vars == <<dom, currentVDOM, currentComponent, hookIndex, stateStorage, arrays,
          pass, staticShape, hist, setters, renders, calls>>

NoComponent == "null"

NoHist ==
    [comp |-> NoComponent, trigger |-> "none", setter |-> Null, arg |-> Null,
     vdom |-> Null, branch |-> "none", against |-> Null, script |-> Null,
     reads |-> <<>>, made |-> <<>>]

Init ==
    /\ dom = EmptyDocument
    /\ currentVDOM = Null
    /\ currentComponent = NoComponent
    /\ hookIndex = 0
    /\ stateStorage = [c \in Components |-> NoArray]
    /\ arrays = <<>>
    /\ pass = 0
    /\ staticShape = Null
    /\ hist = NoHist
    /\ setters = {}
    /\ renders = 0
    /\ calls = 0

\* the program state a call starts from: no exception is pending
State ==
    [dom |-> [dom EXCEPT !.threw = "none"], currentVDOM |-> currentVDOM,
     currentComponent |-> currentComponent, hookIndex |-> hookIndex,
     stateStorage |-> stateStorage, arrays |-> arrays, pass |-> pass,
     staticShape |-> staticShape,
     vdom |-> Null, branch |-> "none", against |-> Null, script |-> Null,
     reads |-> <<>>, made |-> <<>>]

Range(q) == {q[i] : i \in 1..Len(q)}

\* the step that leaves the program in state r after a pass triggered by trigger
Commit(r, trigger, setter, arg) ==
    /\ dom' = r.dom
    /\ currentVDOM' = r.currentVDOM
    /\ currentComponent' = r.currentComponent
    /\ hookIndex' = r.hookIndex
    /\ stateStorage' = r.stateStorage
    /\ arrays' = r.arrays
    /\ pass' = r.pass
    /\ staticShape' = r.staticShape
    /\ hist' = [comp |-> r.currentComponent, trigger |-> trigger, setter |-> setter,
                arg |-> arg, vdom |-> r.vdom, branch |-> r.branch,
                against |-> r.against, script |-> r.script,
                reads |-> r.reads, made |-> r.made]
    /\ setters' = setters \cup (IF r.currentComponent = "Pair" THEN Range(r.made) ELSE {})

\* a caller runs render(component, container)
Render(component, input) ==
    /\ renders < MaxRenders
    /\ LET st == IF component = "Static" THEN [State EXCEPT !.staticShape = input] ELSE State
       IN \E r \in {render(st, component)} : Commit(r, "render", Null, Null)
    /\ renders' = renders + 1
    /\ calls' = calls

RECURSIVE IsLive(_, _)
\* node n is in the tree under the container
IsLive(d, n) ==
    \/ n = container
    \/ n # NoNode /\ d.nodes[n].parent # NoNode /\ IsLive(d, d.nodes[n].parent)

\* the handler installed on live node n under onclick, Null when there is none
OnClickOf(d, n) ==
    IF "onclick" \in DOMAIN d.nodes[n].props THEN d.nodes[n].props["onclick"] ELSE Null

\* the user clicks live node n: its onclick handler  () => setCount(count + 1)  runs
Click(n) ==
    /\ calls < MaxClicks
    /\ IsLive(dom, n)
    /\ OnClickOf(dom, n).k = "function"
    /\ LET h == OnClickOf(dom, n)
           arg == Num(h.count.n + 1)
       IN \E r \in {setState(State, h.setCount, arg)} : Commit(r, "click", h.setCount, arg)
    /\ calls' = calls + 1
    /\ renders' = renders

\* a caller runs a setter that Pair returned, with value v
CallSetter(s, v) ==
    /\ calls < MaxClicks
    /\ \E r \in {setState(State, s, v)} : Commit(r, "setter", s, v)
    /\ calls' = calls + 1
    /\ renders' = renders

Next ==
    \/ \E c \in Components : \E input \in Inputs(c) : Render(c, input)
    \/ \E n \in 1..Len(dom.nodes) : Click(n)
    \/ \E s \in setters : \E v \in SetterValues : CallSetter(s, v)

Spec == Init /\ [][Next]_vars

(***************************************************************************)
(* The differ and the patcher on their own: the live tree is the           *)
(* materialization of an old tree (or empty, the old node being absent),   *)
(* and one step applies diff(old, new) to it as render does.               *)
(***************************************************************************)
\* the live tree in which old has been materialized and mounted
Mounted(old) ==
    IF old = Undefined THEN EmptyDocument
    ELSE AppendChild(createRealDomNode(EmptyDocument, old), container, NextNode(EmptyDocument))

InitPatch ==
    /\ \E old \in {Build(sh, 0) : sh \in PatchShapes} \cup {Undefined} :
          /\ currentVDOM = old
          /\ dom = Mounted(old)
    /\ currentComponent = NoComponent
    /\ hookIndex = 0
    /\ stateStorage = [c \in Components |-> NoArray]
    /\ arrays = <<>>
    /\ pass = 0
    /\ staticShape = Null
    /\ hist = NoHist
    /\ setters = {}
    /\ renders = 0
    /\ calls = 0

\* patch(container.firstChild, diff(currentVDOM, vdom), container)
PatchStep(sh) ==
    /\ pass = 0
    /\ LET vdom == Build(sh, 1)
           patches == diff(currentVDOM, vdom)
       IN /\ dom' = patch(dom, FirstChild(dom, container), patches, container)
          /\ hist' = [NoHist EXCEPT !.trigger = "patch", !.vdom = vdom, !.branch = "patch",
                                    !.against = currentVDOM, !.script = patches]
    /\ pass' = 1
    /\ staticShape' = sh
    /\ UNCHANGED <<currentVDOM, currentComponent, hookIndex, stateStorage, arrays,
                   setters, renders, calls>>

\* patch(container.firstChild, diff(t, t), container) for the mounted tree t
PatchSelf ==
    /\ pass = 0
    /\ currentVDOM # Undefined
    /\ LET patches == diff(currentVDOM, currentVDOM)
       IN /\ dom' = patch(dom, FirstChild(dom, container), patches, container)
          /\ hist' = [NoHist EXCEPT !.trigger = "self", !.vdom = currentVDOM,
                                    !.branch = "patch", !.against = currentVDOM,
                                    !.script = patches]
    /\ pass' = 1
    /\ UNCHANGED <<currentVDOM, currentComponent, hookIndex, stateStorage, arrays,
                   staticShape, setters, renders, calls>>

NextPatch ==
    \/ \E sh \in PatchShapes : PatchStep(sh)
    \/ PatchSelf

SpecPatch == InitPatch /\ [][NextPatch]_vars

(***************************************************************************)
(* Observation of trees.                                                   *)
(***************************************************************************)
RECURSIVE Observe(_, _)
\* what can be observed of the live tree at node n: tags, text, children in order
Observe(d, n) ==
    [tag |-> d.nodes[n].tag, text |-> d.nodes[n].text,
     kids |-> [i \in 1..Len(d.nodes[n].childNodes) |-> Observe(d, d.nodes[n].childNodes[i])]]

\* the dom in which tree has been materialized into an empty document, as node 2
Materialized(tree) == createRealDomNode(EmptyDocument, tree)

\* what can be observed of materialize(tree)
ObserveTree(tree) == Observe(Materialized(tree), 2)

\* the live children of the container
ContainerKids == dom.nodes[container].childNodes

RECURSIVE NodeAt(_, _)
\* the Node at a position of a tree, a position being the 0-based child indices
\* from the root; undefined when the tree has no such position
NodeAt(tree, path) ==
    IF path = <<>> THEN tree
    ELSE NodeAt(At(ChildrenOf(tree), Head(path)), Tail(path))

NoScript == [type |-> "NONE"]

RECURSIVE ScriptAt(_, _)
\* the script for a position, NoScript when patch does not descend to it
ScriptAt(script, path) ==
    IF path = <<>> THEN script
    ELSE IF script.type = "UPDATE" /\ Head(path) < Len(script.childPatches)
    THEN ScriptAt(script.childPatches[Head(path) + 1], Tail(path))
    ELSE NoScript

RECURSIVE LiveAt(_, _, _)
\* the live node at a position below live node n, NoNode when there is none
LiveAt(d, n, path) ==
    IF n = NoNode \/ path = <<>> THEN n
    ELSE LiveAt(d, ChildNodeAt(d, n, Head(path)), Tail(path))

MaxDepth == 2

\* the positions of the trees of the model
Paths == SeqsUpTo(0..(Max(MaxKids, 2) - 1), MaxDepth)

IsLeaf(node) == node.k \in {"string", "number"}
IsElement(node) == node.k = "element"

(***************************************************************************)
(* C1.  After every render call the call has completed without an          *)
(* exception, and the live tree under the container is one node that is    *)
(* observably identical (tags, text, child count and order at every        *)
(* level) to materialize of the tree the call produced.                    *)
(***************************************************************************)
C1_RenderMatchesMaterialize ==
    pass >= 1 =>
        /\ dom.threw = "none"
        /\ Len(ContainerKids) = 1
        /\ Observe(dom, FirstChild(dom, container)) = ObserveTree(hist.vdom)

\* the live tree under the container is the materialization of the retained snapshot
Aligned ==
    /\ Len(ContainerKids) = 1
    /\ ~Falsy(currentVDOM)
    /\ Observe(dom, FirstChild(dom, container)) = ObserveTree(currentVDOM)

\* old and new are both Leaves, or both Elements with the same tag, at position
\* path and are Elements with the same tag at every position above it
RECURSIVE SamePlace(_, _, _)
SamePlace(old, new, path) ==
    IF path = <<>>
    THEN \/ IsLeaf(old) /\ IsLeaf(new)
         \/ IsElement(old) /\ IsElement(new) /\ old.type = new.type
    ELSE /\ IsElement(old) /\ IsElement(new) /\ old.type = new.type
         /\ SamePlace(At(ChildrenOf(old), Head(path)), At(ChildrenOf(new), Head(path)), Tail(path))

Hole == [k |-> "hole"]

RECURSIVE Plain(_, _)
\* the content of a tree (tags, attributes, children, scalars), with the Node
\* at position path, if any, left out
Plain(tree, path) ==
    IF path = <<>> THEN Hole
    ELSE IF ~IsElement(tree) THEN tree
    ELSE [tag |-> tree.type,
          attrs |-> SelectEntries(tree.props.entries, "children"),
          kids |-> [i \in 1..Len(ChildrenOf(tree)) |->
                      Plain(ChildrenOf(tree)[i],
                            IF Head(path) = i - 1 THEN Tail(path) ELSE <<-1>>)]]

\* new differs from old only in the value of the Leaf at position path
OnlyLeafDiffers(old, new, path) ==
    /\ IsLeaf(NodeAt(old, path)) /\ IsLeaf(NodeAt(new, path))
    /\ NodeAt(old, path) # NodeAt(new, path)
    /\ Plain(old, path) = Plain(new, path)

(***************************************************************************)
(* C2.  On a re-render that starts from the live tree of the retained      *)
(* snapshot and completes, the live node at every position where the old   *)
(* and the new tree both have a Leaf, or both an Element of the same tag   *)
(* (below Elements that are kept), is the live node that was there before; *)
(* and when only the value of one Leaf differs, the heap of live nodes     *)
(* changes in the text of that Leaf's text node and in nothing else.       *)
(***************************************************************************)
C2_KeepsLiveNodes ==
    [][(hist'.branch = "patch" /\ Aligned /\ dom'.threw = "none") =>
        \A path \in Paths :
            /\ SamePlace(currentVDOM, hist'.vdom, path) =>
                  LiveAt(dom', FirstChild(dom', container), path)
                      = LiveAt(dom, FirstChild(dom, container), path)
            /\ OnlyLeafDiffers(currentVDOM, hist'.vdom, path) =>
                  dom'.nodes =
                      [dom.nodes EXCEPT ![LiveAt(dom, FirstChild(dom, container), path)].text =
                          ToText(NodeAt(hist'.vdom, path))]
    ]_vars

(***************************************************************************)
(* C3.  When Counter is the only producer rendered and its button is       *)
(* clicked after each render, the read of pass 1 returns the initial value *)
(* 0 and the read of pass 1 + n returns n; in general the read of a pass   *)
(* started by a setter returns the value the setter wrote, and the read of *)
(* a pass of Counter whose cell exists returns the stored value, not the   *)
(* initial one.                                                            *)
(***************************************************************************)
C3_CounterReads ==
    /\ []((hist.comp = "Counter" /\ renders = 1) => hist.reads = <<Num(calls)>>)
    /\ []((hist.trigger \in {"click", "setter"} /\ hist.reads # <<>>) =>
              hist.reads[1] = hist.arg)
    /\ [][(hist'.trigger = "render" /\ hist'.comp = "Counter"
             /\ stateStorage["Counter"] # NoArray) =>
              hist'.reads = <<arrays[stateStorage["Counter"]][1]>>]_vars

\* the third pass of Counter has read 2
C3_Witness ==
    /\ hist.comp = "Counter" /\ renders = 1 /\ calls = 2
    /\ hist.trigger = "click"
    /\ hist.reads = <<Num(2)>>

(***************************************************************************)
(* C4.  After a pass of Pair, which reads state twice, Pair has one cell   *)
(* per read, the i-th read returned the value of cell i (its own initial   *)
(* value on the first pass), and a call of the setter returned by the i-th *)
(* read changes cell i and no other cell.                                  *)
(***************************************************************************)
C4_OneCellPerRead ==
    /\ [](hist.comp = "Pair" =>
            LET cells == arrays[stateStorage["Pair"]]
            IN /\ Len(cells) = Len(hist.reads)
               /\ \A i \in 1..Len(cells) : hist.reads[i] = cells[i]
               /\ pass = 1 => hist.reads = PairInits)
    /\ [][(hist'.trigger = "setter" /\ hist'.setter.read <= Len(arrays[hist'.setter.hooks])) =>
            arrays'[hist'.setter.hooks] =
                [arrays[hist'.setter.hooks] EXCEPT ![hist'.setter.read] = hist'.arg]]_vars

(***************************************************************************)
(* C5.  A call of a setter, made after the previous call has returned,     *)
(* re-renders the producer whose state read created the setter, and leaves *)
(* the state-store entry of every other producer as it was.                *)
(***************************************************************************)
C5_SetterKeepsItsTarget ==
    [][(hist'.trigger \in {"click", "setter"} /\ dom.threw = "none") =>
        /\ hist'.comp = hist'.setter.comp
        /\ \A c \in Components \ {hist'.setter.comp} : stateStorage'[c] = stateStorage[c]
    ]_vars

(***************************************************************************)
(* C6.  render mounts only in the first pass, when no snapshot has been    *)
(* retained; every later pass diffs against the snapshot, and the          *)
(* container has exactly one live child after every pass.                  *)
(***************************************************************************)
C6_MountsOnlyOnce ==
    pass >= 1 =>
        /\ hist.branch = "mount" <=> pass = 1
        /\ Len(ContainerKids) = 1

C8_ChildScripts ==
    pass = 1 =>
        \A path \in Paths :
            LET old == NodeAt(hist.against, path)
                new == NodeAt(hist.vdom, path)
                script == ScriptAt(hist.script, path)
                m == Len(ChildrenOf(old))
                n == Len(ChildrenOf(new))
            IN (script # NoScript /\ IsElement(old) /\ IsElement(new) /\ old.type = new.type) =>
                  /\ script.type = "UPDATE"
                  /\ Len(script.childPatches) = Max(m, n)
                  /\ \A i \in 0..(Len(script.childPatches) - 1) :
                        /\ script.childPatches[i + 1] =
                              diff(At(ChildrenOf(old), i), At(ChildrenOf(new), i))
                        /\ i >= n => script.childPatches[i + 1] = [type |-> "REMOVE"]
                        /\ i >= m => script.childPatches[i + 1] =
                              [type |-> "REPLACE", newNode |-> ChildrenOf(new)[i + 1]]

\* an old Element with fewer children than the new one, and one with more
C8_Witness ==
    /\ pass = 1
    /\ IsElement(hist.against) /\ IsElement(hist.vdom)
    /\ hist.against.type = hist.vdom.type
    /\ Len(ChildrenOf(hist.against)) = 0
    /\ Len(ChildrenOf(hist.vdom)) = MaxKids
    /\ Len(hist.script.childPatches) = MaxKids

(***************************************************************************)
(* C9.  Applying diff(old, new) to the live tree materialized from old     *)
(* never fails, whatever the number of child slots new has fewer than old. *)
(***************************************************************************)
C9_PatchNeverFails ==
    (pass = 1 /\ hist.against # Undefined) => dom.threw = "none"

\* old and new differ in variant or in tag, or old is absent
Mismatch(old, new) ==
    \/ old = Undefined
    \/ IsLeaf(old) /\ IsElement(new)
    \/ IsElement(old) /\ IsLeaf(new)
    \/ IsElement(old) /\ IsElement(new) /\ old.type # new.type

(***************************************************************************)
(* C10.  When old and new differ in variant or in tag, or old is absent,   *)
(* diff returns REPLACE carrying new, and after applying it the parent has *)
(* at that position a live node observably identical to materialize(new).  *)
(***************************************************************************)
C10_ReplaceMaterializesNew ==
    (pass = 1 /\ Mismatch(hist.against, hist.vdom)) =>
        /\ hist.script = [type |-> "REPLACE", newNode |-> hist.vdom]
        /\ dom.threw = "none"
        /\ Len(ContainerKids) = 1
        /\ Observe(dom, FirstChild(dom, container)) = ObserveTree(hist.vdom)

\* a Leaf has been replaced by an Element with children
C10_Witness ==
    /\ pass = 1
    /\ IsLeaf(hist.against) /\ IsElement(hist.vdom)
    /\ hist.script.type = "REPLACE"
    /\ Len(ContainerKids) = 1
    /\ dom.nodes[FirstChild(dom, container)].tag = "div"
    /\ Len(dom.nodes[FirstChild(dom, container)].childNodes) = MaxKids

(***************************************************************************)
(* C11.  For two Leaves with different scalar values diff returns TEXT     *)
(* carrying the new value, and after patching the live text node is the    *)
(* node that was there, its content the new value as a string; for two     *)
(* Leaves with equal values diff returns an UPDATE without attribute       *)
(* patches and without child scripts.                                      *)
(***************************************************************************)
C11_LeafTextUpdate ==
    (pass = 1 /\ IsLeaf(hist.against) /\ IsLeaf(hist.vdom)) =>
        IF hist.against # hist.vdom
        THEN /\ hist.script = [type |-> "TEXT", newNode |-> hist.vdom]
             /\ ContainerKids = <<2>>
             /\ dom.nodes[2].nodeType = "text"
             /\ dom.nodes[2].text = ToText(hist.vdom)
        ELSE hist.script = [type |-> "UPDATE", propPatches |-> <<>>, childPatches |-> <<>>]

(***************************************************************************)
(* Attribute mappings on their own: diffProps applied to two mappings.     *)
(***************************************************************************)
AttrKeys == {"a", "b", "c"}
AttrValues == {Num(1), Num(2), Num(3), Num(4)}

\* the key sequences without a repeated key
DistinctKeys(ks) == \A i, j \in 1..Len(ks) : ks[i] = ks[j] => i = j

\* object literals { k1: v1, ... } of up to MaxAttrs keys, in insertion order
AttrMaps ==
    {Obj(e) : e \in {e \in SeqsUpTo(AttrKeys \X AttrValues, MaxAttrs) :
                        DistinctKeys([i \in 1..Len(e) |-> e[i][1]])}}

\* the state before diffProps(oldProps, newProps): oldProps is chosen
InitProps ==
    /\ dom = EmptyDocument
    /\ currentVDOM = Null
    /\ currentComponent = NoComponent
    /\ hookIndex = 0
    /\ stateStorage = [c \in Components |-> NoArray]
    /\ arrays = <<>>
    /\ pass = 0
    /\ staticShape = Null
    /\ \E oldProps \in AttrMaps : hist = [NoHist EXCEPT !.against = oldProps]
    /\ setters = {}
    /\ renders = 0
    /\ calls = 0

\* diffProps(oldProps, newProps), its result kept in hist.script
DiffPropsStep(newProps) ==
    /\ pass = 0
    /\ pass' = 1
    /\ hist' = [hist EXCEPT !.trigger = "diffProps",
                            !.vdom = newProps,
                            !.script = diffProps(hist.against, newProps)]
    /\ UNCHANGED <<dom, currentVDOM, currentComponent, hookIndex, stateStorage,
                   arrays, staticShape, setters, renders, calls>>

NextProps == \E newProps \in AttrMaps : DiffPropsStep(newProps)

SpecProps == InitProps /\ [][NextProps]_vars

\* the position of key in the mapping's key order, 0 when it has no such key
KeyIndex(entries, key) ==
    IF HasKey(entries, key)
    THEN CHOOSE i \in 1..Len(entries) : entries[i][1] = key
    ELSE 0

\* how many patches of the list have this type and key
CountPatches(patches, type, key) ==
    Cardinality({i \in 1..Len(patches) :
                    patches[i].type = type /\ patches[i].key = key})

C13_NoChildrenPatch ==
    (pass = 1 /\ IsElement(hist.against) /\ IsElement(hist.vdom)
              /\ hist.script.type = "UPDATE") =>
        \A i \in 1..Len(hist.script.propPatches) :
            hist.script.propPatches[i].key # "children"

(***************************************************************************)
(* C14.  Applying diff(t, t) to the live tree materialized from t leaves   *)
(* the live tree as it was: the same nodes with the same tags, properties, *)
(* text and child lists, and no node created.                              *)
(***************************************************************************)
C14_SelfDiffChangesNothing ==
    (pass = 1 /\ hist.trigger = "self") => dom = Mounted(currentVDOM)

\* diff(t, t) was applied for an Element t with an id, a handler and a child
C14_Witness ==
    /\ pass = 1
    /\ hist.trigger = "self"
    /\ IsElement(currentVDOM)
    /\ HasKey(currentVDOM.props.entries, "id")
    /\ HasKey(currentVDOM.props.entries, "onClick")
    /\ Len(ChildrenOf(currentVDOM)) = 1
    /\ dom.nodes[2].props["id"] = Str(TextA)
    /\ dom.nodes[2].props["onclick"].k = "function"

(***************************************************************************)
(* Rendering given Nodes: the two branches of render without a producer,   *)
(* over well-formed trees and over Element literals written by hand.       *)
(***************************************************************************)
\* an object literal { type: tag, props: props }, not made by createElement
Literal(tag, props) == [k |-> "literal", tag |-> tag, props |-> props]

\* Element literals without an attribute mapping or without a child list
Literals ==
    {Literal("div", props) :
        props \in {Undefined, Null, Obj(<<>>), Obj(<<<<"id", Str(TextA)>>>>)}}

NodeShapes ==
    {Str(TextA), Num(1)} \cup
    {ShapeWith("div", attrs, kids) :
        attrs \in PatchAttrs,
        kids \in {<<>>, <<Str(TextA)>>, <<ShapeWith("p", <<>>, <<Str(TextB)>>)>>}} \cup
    {Shape("div", <<Shape("p", <<Str(TextA)>>), Num(1)>>)} \cup
    Literals \cup
    {Shape("div", <<Literal("div", Undefined)>>), Shape("div", <<Literal("div", Obj(<<>>))>>)}

InitNode ==
    /\ dom = EmptyDocument
    /\ currentVDOM = Null
    /\ currentComponent = NoComponent
    /\ hookIndex = 0
    /\ stateStorage = [c \in Components |-> NoArray]
    /\ arrays = <<>>
    /\ pass = 0
    /\ staticShape = Null
    /\ hist = NoHist
    /\ setters = {}
    /\ renders = 0
    /\ calls = 0

\* render's body from `if (!currentVDOM)` on, for the Node of shape sh
RenderNode(sh) ==
    /\ pass < MaxRenders
    /\ dom.threw = "none"
    /\ LET vdom == Build(sh, pass + 1)
           mount == Falsy(currentVDOM)
           patches == IF mount THEN Null ELSE diff(currentVDOM, vdom)
           dom1 == IF mount
                   THEN AppendChild(createRealDomNode(dom, vdom), container, NextNode(dom))
                   ELSE IF Throws(patches)
                   THEN Throw(dom, "TypeError: type of null")
                   ELSE patch(dom, FirstChild(dom, container), patches, container)
       IN /\ dom' = dom1
          /\ currentVDOM' = Retain(currentVDOM, vdom, dom1.threw)
          /\ hist' = [NoHist EXCEPT !.trigger = "render", !.vdom = vdom,
                                    !.branch = IF mount THEN "mount" ELSE "patch",
                                    !.against = currentVDOM, !.script = patches]
    /\ pass' = pass + 1
    /\ staticShape' = sh
    /\ UNCHANGED <<currentComponent, hookIndex, stateStorage, arrays, setters,
                   renders, calls>>

NextNode_ == \E sh \in NodeShapes : RenderNode(sh)

SpecNode == InitNode /\ [][NextNode_]_vars

RECURSIVE WellFormed(_)
\* a Leaf, or an Element whose attribute mapping holds a list of well-formed children
WellFormed(node) ==
    \/ IsLeaf(node)
    \/ /\ IsElement(node)
       /\ node.props.k = "props"
       /\ Get(node.props.entries, "children").k = "array"
       /\ \A i \in 1..Len(ChildrenOf(node)) : WellFormed(ChildrenOf(node)[i])

\* the property name an attribute key is installed under
InstalledName(key) == IF key = "onClick" THEN "onclick" ELSE key

RECURSIVE IsMaterialOf(_, _, _)
\* live node n of d is what the claim says materialize(node) is
IsMaterialOf(d, n, node) ==
    LET live == d.nodes[n] IN
    IF IsLeaf(node)
    THEN /\ live.nodeType = "text"
         /\ live.text = (IF node.k = "string" THEN node.s ELSE NumToStr(node.n))
         /\ live.childNodes = <<>>
    ELSE LET attrs == SelectEntries(node.props.entries, "children")
             kids == ChildrenOf(node)
         IN /\ live.nodeType = "element"
            /\ live.tag = node.type
            /\ DOMAIN live.props = {InstalledName(attrs[i][1]) : i \in 1..Len(attrs)}
            /\ \A i \in 1..Len(attrs) : live.props[InstalledName(attrs[i][1])] = attrs[i][2]
            /\ Len(live.childNodes) = Len(kids)
            /\ \A i \in 1..Len(kids) :
                  /\ d.nodes[live.childNodes[i]].parent = n
                  /\ IsMaterialOf(d, live.childNodes[i], kids[i])

(***************************************************************************)
(* C15.  The first render of a well-formed Node into the empty container   *)
(* leaves one child there: for a Leaf a text node holding the scalar as a  *)
(* string, for an Element a node of its tag that has every attribute but   *)
(* "children" installed (onClick as onclick) and nothing else, and whose   *)
(* children are the materializations of the Element's children in order.   *)
(***************************************************************************)
C15_MaterializeBuildsTheTree ==
    (hist.branch = "mount" /\ hist.against = Null /\ WellFormed(hist.vdom)) =>
        /\ dom.threw = "none"
        /\ ContainerKids = <<2>>
        /\ dom.nodes[2].parent = container
        /\ IsMaterialOf(dom, 2, hist.vdom)

\* a div with id and onClick and a p child holding text was rendered first
C15_Witness ==
    /\ hist.branch = "mount"
    /\ hist.against = Null
    /\ IsElement(hist.vdom) /\ WellFormed(hist.vdom)
    /\ HasKey(hist.vdom.props.entries, "id")
    /\ HasKey(hist.vdom.props.entries, "onClick")
    /\ dom.nodes[2].tag = "div"
    /\ dom.nodes[2].props["id"] = Str(TextA)
    /\ dom.nodes[2].props["onclick"].k = "function"
    /\ Len(dom.nodes[2].childNodes) = 1
    /\ dom.nodes[dom.nodes[2].childNodes[1]].tag = "p"
    /\ Len(dom.nodes[dom.nodes[2].childNodes[1]].childNodes) = 1

\* the live tree diff's script was applied to, before the step
Before == Mounted(hist.against)

\* node n was created by the step
Fresh(n) == n > Len(Before.nodes)

(***************************************************************************)
(* C16.  A REPLACE applied to a present live node leaves a newly created   *)
(* node, the materialization of its newNode, at the same child index, the  *)
(* children at the other indices being the nodes that were there; applied  *)
(* to an absent live node it appends the new node, so that an Element with *)
(* more children than the old one ends with its children in the new order. *)
(***************************************************************************)
C16_ReplaceKeepsThePlace ==
    (pass = 1 /\ hist.trigger = "patch") =>
        LET old == hist.against
            new == hist.vdom
            script == hist.script
        IN /\ script.type = "REPLACE" =>
                /\ Len(ContainerKids) = 1
                /\ Fresh(ContainerKids[1])
                /\ dom.nodes[ContainerKids[1]].parent = container
                /\ IsMaterialOf(dom, ContainerKids[1], new)
           /\ (script.type = "UPDATE" /\ IsElement(old)) =>
                LET was == Before.nodes[2].childNodes
                    now == dom.nodes[2].childNodes
                    m == Len(ChildrenOf(old))
                    n == Len(ChildrenOf(new))
                IN /\ ContainerKids = <<2>>
                   /\ Len(now) >= n
                   /\ n >= m => Len(now) = n
                   /\ \A i \in 1..n :
                        IF script.childPatches[i].type = "REPLACE"
                        THEN /\ Fresh(now[i])
                             /\ dom.nodes[now[i]].parent = 2
                             /\ IsMaterialOf(dom, now[i], ChildrenOf(new)[i])
                        ELSE now[i] = was[i]

\* the first of two children was replaced and the second is the node it was
C16_Witness ==
    /\ pass = 1
    /\ hist.trigger = "patch"
    /\ IsElement(hist.against)
    /\ hist.script.type = "UPDATE"
    /\ Len(ChildrenOf(hist.against)) = 2
    /\ Len(ChildrenOf(hist.vdom)) = 2
    /\ hist.script.childPatches[1].type = "REPLACE"
    /\ hist.script.childPatches[2].type = "TEXT"
    /\ Fresh(dom.nodes[2].childNodes[1])
    /\ dom.nodes[2].childNodes[2] = Before.nodes[2].childNodes[2]

(***************************************************************************)
(* C17.  When the new Element lacks the onClick key the old Element had,   *)
(* after the patch no handler is installed on the live node under the      *)
(* normalized name onclick.                                                *)
(***************************************************************************)
C17_UnsetClearsTheHandler ==
    (pass = 1 /\ hist.trigger = "patch"
              /\ IsElement(hist.against) /\ IsElement(hist.vdom)
              /\ hist.against.type = hist.vdom.type
              /\ HasKey(hist.against.props.entries, "onClick")
              /\ ~HasKey(hist.vdom.props.entries, "onClick")) =>
        /\ dom.threw = "none"
        /\ ContainerKids = <<2>>
        /\ ("onclick" \in DOMAIN dom.nodes[2].props => dom.nodes[2].props["onclick"] = Null)

(***************************************************************************)
(* C18.  A click on a live button whose previous render has completed runs *)
(* exactly one render pass to completion inside the setter call, whether   *)
(* or not the value written differs from the stored one: the producer of   *)
(* the handler ran once more and read the value written, the snapshot is   *)
(* the tree it returned, and the container's child is patched to it.       *)
(***************************************************************************)
C18_SetterRendersOnce ==
    [][(calls' = calls + 1 /\ hist'.trigger = "click" /\ dom.threw = "none") =>
          /\ pass' = pass + 1
          /\ dom'.threw = "none"
          /\ hist'.comp = "Counter"
          /\ hist'.reads = <<hist'.arg>>
          /\ currentVDOM' = hist'.vdom
          /\ Len(dom'.nodes[container].childNodes) = 1
          /\ Observe(dom', FirstChild(dom', container)) = ObserveTree(currentVDOM')]_vars

\* an Element without an attribute mapping, or whose mapping has no child list
LacksChildList(node) ==
    /\ IsElement(node)
    /\ \/ node.props.k # "props"
       \/ Get(node.props.entries, "children").k # "array"

(***************************************************************************)
(* C19.  An Element without an attribute mapping, or whose mapping holds   *)
(* no child list, is materialized without failure as a childless node of   *)
(* its tag, and diff does not fail when it is the old or the new Node.     *)
(***************************************************************************)
C19_ToleratesMissingParts ==
    /\ (hist.branch = "mount" /\ hist.against = Null /\ LacksChildList(hist.vdom)) =>
          /\ dom.threw = "none"
          /\ ContainerKids = <<2>>
          /\ dom.nodes[2].tag = hist.vdom.type
          /\ dom.nodes[2].childNodes = <<>>
    /\ (hist.branch = "patch" /\ (LacksChildList(hist.against) \/ LacksChildList(hist.vdom))) =>
          ~Throws(hist.script)

====
